---- MODULE Spec2Model ----
(***************************************************************************)
(* Model of the evidence store: the EvidenceStore orchestrator             *)
(* (src/lib/evidence-store.ts), the S3 and IPFS adapters                   *)
(* (src/lib/s3-store.ts, ipfs-store.ts) and the hash helpers (hash.ts).    *)
(* The S3 bucket and the IPFS node are the environment: their operations   *)
(* settle with a nondeterministic outcome, and the bucket can be modified  *)
(* by a third party.                                                       *)
(***************************************************************************)
EXTENDS Integers, Sequences, FiniteSets, TLC

(* ------------------------------ bounds --------------------------------- *)
MaxLen == 1
MaxClock == 1
MaxOps == 2
MaxTampers == 1

Bytes == {0}
Calls == {1, 2}
OverrideKeys == {"custom"}

(* --------------------------- JS optionals ------------------------------ *)
Undefined == [def |-> FALSE]
Some(s) == [def |-> TRUE, str |-> s]
\* JS truthiness of an optional string: undefined and "" are both falsy
Truthy(o) == o.def /\ o.str # ""

(* ------------------------------ hash.ts -------------------------------- *)
RECURSIVE SeqsUpTo(_)
SeqsUpTo(n) ==
  IF n = 0 THEN {<<>>}
  ELSE LET S == SeqsUpTo(n - 1)
       IN  S \cup {Append(s, b) : s \in {t \in S : Len(t) = n - 1}, b \in Bytes}

Payloads == SeqsUpTo(MaxLen)

RECURSIVE Code(_)
\* the digest value of a byte sequence, collision-free on the bounded payloads
Code(b) ==
  IF b = <<>> THEN 0
  ELSE 2 * Code(SubSeq(b, 1, Len(b) - 1)) + b[Len(b)] + 1

HexDigit(n) == SubSeq("0123456789abcdef", n + 1, n + 1)

\* hash.digest('hex'): fixed-width lowercase hex
HexDigest(b) == HexDigit((Code(b) \div 16) % 16) \o HexDigit(Code(b) % 16)

sha256(input) == "0x" \o HexDigest(input)

\* variant: the marker is optional in the expected hash
verifyHashLoose(data, expectedHash) ==
  LET computedHash == sha256(data)
  IN  computedHash = expectedHash
      \/ SubSeq(computedHash, 3, Len(computedHash)) = expectedHash

verifyHash(data, expectedHash) ==
  LET computedHash == sha256(data)
  IN  computedHash = expectedHash

\* new Date().toISOString() at clock reading t
toISOString(t) == "2024-01-01T00:00:00.00" \o ToString(t) \o "Z"

\* variant: the size drifts with the clock reading
generateIntegrityMetadataDrifting(data, t) ==
  [hash |-> sha256(data), size |-> Len(data) + t, timestamp |-> toISOString(t)]

generateIntegrityMetadata(data, t) ==
  [hash |-> sha256(data), size |-> Len(data), timestamp |-> toISOString(t)]

(* --------------------------- backend values ---------------------------- *)
\* addResult.cid.toString(): the content address the IPFS node derives
cidToString(b) == "Qm" \o HexDigest(b)

\* variant: the override is ignored
objectKeyDerivedOnly(key, hash) == "evidence/" \o SubSeq(hash, 3, Len(hash))

\* S3Store.store line 27: key ?? `evidence/${metadata.hash.slice(2)}`
objectKeyOf(key, hash) ==
  IF key.def THEN key.str ELSE "evidence/" \o SubSeq(hash, 3, Len(hash))

DerivedKeys == {objectKeyOf(Undefined, sha256(b)) : b \in Payloads}
Keys == DerivedKeys \cup OverrideKeys
Cids == {cidToString(b) : b \in Payloads}

NoObject == [present |-> FALSE]
NoValue == [none |-> TRUE]
NoPromise == [st |-> "none"]
Pending == [st |-> "pending"]
Fulfilled(v) == [st |-> "fulfilled", value |-> v]
Rejected(e) == [st |-> "rejected", reason |-> e]
Settled(p) == p.st \in {"fulfilled", "rejected"}

IdleCall == [op |-> "idle", pc |-> "idle"]

(* ------------------------------- state --------------------------------- *)
VARIABLES
  config,      \* the constructor's argument: which of config.s3, config.ipfs is set
  ctor,        \* "new" before construction, "ok", or "threw"
  s3Store,     \* this.s3Store is set
  ipfsStore,   \* this.ipfsStore is set
  now,         \* the system clock
  bucket,      \* the S3 bucket: key -> object (Body, Metadata) or NoObject
  blocks,      \* the IPFS node: the payloads added so far
  calls,       \* the orchestrator calls in flight
  ops,         \* number of calls made so far
  tampers      \* number of third-party modifications of the bucket so far

vars == <<config, ctor, s3Store, ipfsStore, now, bucket, blocks, calls, ops, tampers>>

Init ==
  /\ config = [s3 |-> FALSE, ipfs |-> FALSE]
  /\ ctor = "new"
  /\ s3Store = FALSE
  /\ ipfsStore = FALSE
  /\ now = 0
  /\ bucket = [k \in Keys |-> NoObject]
  /\ blocks = {}
  /\ calls = [c \in Calls |-> IdleCall]
  /\ ops = 0
  /\ tampers = 0

(* --------------------------- constructor ------------------------------- *)
\* variant: construction demands both backends
ConstructBoth(cfgS3, cfgIpfs) ==
  /\ ctor = "new"
  /\ config' = [s3 |-> cfgS3, ipfs |-> cfgIpfs]
  /\ s3Store' = cfgS3
  /\ ipfsStore' = cfgIpfs
  /\ ctor' = IF ~s3Store' \/ ~ipfsStore' THEN "threw" ELSE "ok"
  /\ UNCHANGED <<now, bucket, blocks, calls, ops, tampers>>

\* new EvidenceStore(config): config.s3 / config.ipfs present or not
Construct(cfgS3, cfgIpfs) ==
  /\ ctor = "new"
  /\ config' = [s3 |-> cfgS3, ipfs |-> cfgIpfs]
  /\ s3Store' = cfgS3
  /\ ipfsStore' = cfgIpfs
  /\ ctor' = IF ~s3Store' /\ ~ipfsStore' THEN "threw" ELSE "ok"
  /\ UNCHANGED <<now, bucket, blocks, calls, ops, tampers>>

(* ------------------------------- errors -------------------------------- *)
Err(name, message) == [name |-> name, message |-> message]
AllFailedError == Err("Error", "All storage operations failed")
NoSourceError == Err("Error", "No valid storage source provided or available")
S3PutError == Err("ServiceUnavailable", "S3 put failed")
IPFSAddError == Err("TimeoutError", "IPFS add failed")

\* a new call can be made: it takes the lowest free slot
Idle(c) ==
  /\ ctor = "ok"
  /\ ops < MaxOps
  /\ calls[c].pc = "idle"
  /\ \A d \in Calls : d < c => calls[d].pc # "idle"

\* calls overlap in time only when all of them are store calls, the one
\* operation that writes; every other call runs on its own
Alone(c) == \A d \in Calls : d # c => calls[d].pc = "idle"
\* a read is called on its own too, but the caller may still hold the outcome
\* of an earlier call (a StoreResult whose identifiers it passes on)
NoneInFlight(c) == \A d \in Calls : d # c => calls[d].pc # "pending"
AmongStores(c) == \A d \in Calls : d # c => calls[d].op \in {"idle", "store"}

(* ------------------------- EvidenceStore.store ------------------------- *)
\* S3Store.store lines 25-43: the adapter's own metadata and the put command
PutObjectCommand(buffer, key, t) ==
  LET metadata == generateIntegrityMetadata(buffer, t)
      objectKey == objectKeyOf(key, metadata.hash)
  IN  [Key |-> objectKey,
       Body |-> buffer,
       Metadata |-> [hash |-> metadata.hash,
                     size |-> ToString(metadata.size),
                     timestamp |-> metadata.timestamp]]

\* S3Store.store lines 47-52: the adapter's StoreResult once the put succeeded
S3StoreResult(put) ==
  [hash |-> put.Metadata.hash,
   size |-> Len(put.Body),
   s3Key |-> Some(put.Key),
   ipfsHash |-> Undefined,
   timestamp |-> put.Metadata.timestamp]

\* IPFSStore.store lines 26-31: the adapter's StoreResult once the add succeeded
IPFSStoreResult(buffer, t) ==
  LET metadata == generateIntegrityMetadata(buffer, t)
  IN  [hash |-> metadata.hash,
       size |-> metadata.size,
       s3Key |-> Undefined,
       ipfsHash |-> Some(cidToString(buffer)),
       timestamp |-> metadata.timestamp]

\* variant: the IPFS write is issued only when there is no object store
StoreBeginOneWrite(c, data, key, d0, d1, d2) ==
  /\ Idle(c) /\ AmongStores(c)
  /\ now + d0 + d1 + d2 <= MaxClock
  /\ s3Store \/ d1 = 0
  /\ ipfsStore \/ d2 = 0
  /\ calls' = [calls EXCEPT ![c] =
       [op |-> "store", pc |-> "pending",
        data |-> data, key |-> key,
        metadata |-> generateIntegrityMetadata(data, now + d0),
        put |-> IF s3Store THEN PutObjectCommand(data, key, now + d0 + d1)
                ELSE NoValue,
        ipfsT |-> now + d0 + d1 + d2,
        s3 |-> IF s3Store THEN Pending ELSE NoPromise,
        ipfs |-> IF ipfsStore /\ ~s3Store THEN Pending ELSE NoPromise]]
  /\ now' = now + d0 + d1 + d2
  /\ ops' = ops + 1
  /\ UNCHANGED <<config, ctor, s3Store, ipfsStore, bucket, blocks, tampers>>

\* store lines 23-30: metadata, then both adapter calls run up to their first
\* await; each one reads the clock again (d0, d1, d2: how far the clock has
\* moved before each of the three readings)
StoreBegin(c, data, key, d0, d1, d2) ==
  /\ Idle(c) /\ AmongStores(c)
  /\ now + d0 + d1 + d2 <= MaxClock
  /\ s3Store \/ d1 = 0
  /\ ipfsStore \/ d2 = 0
  /\ calls' = [calls EXCEPT ![c] =
       [op |-> "store", pc |-> "pending",
        data |-> data, key |-> key,
        metadata |-> generateIntegrityMetadata(data, now + d0),
        put |-> IF s3Store THEN PutObjectCommand(data, key, now + d0 + d1)
                ELSE NoValue,
        ipfsT |-> now + d0 + d1 + d2,
        s3 |-> IF s3Store THEN Pending ELSE NoPromise,
        ipfs |-> IF ipfsStore THEN Pending ELSE NoPromise]]
  /\ now' = now + d0 + d1 + d2
  /\ ops' = ops + 1
  /\ UNCHANGED <<config, ctor, s3Store, ipfsStore, bucket, blocks, tampers>>

\* variant: a put over an existing object replaces the body and keeps the
\* attributes the object had
S3PutSettleKeepingAttributes(c, ok) ==
  /\ calls[c].op = "store" /\ calls[c].pc = "pending"
  /\ calls[c].s3.st = "pending"
  /\ LET put == calls[c].put
         written == [hash |-> Some(put.Metadata.hash),
                     size |-> Some(put.Metadata.size),
                     timestamp |-> Some(put.Metadata.timestamp)]
     IN  IF ok
         THEN /\ bucket' = [bucket EXCEPT ![put.Key] =
                   [present |-> TRUE, Body |-> put.Body,
                    Metadata |-> IF bucket[put.Key].present
                                 THEN bucket[put.Key].Metadata ELSE written]]
              /\ calls' = [calls EXCEPT ![c].s3 = Fulfilled(S3StoreResult(put))]
         ELSE /\ bucket' = bucket
              /\ calls' = [calls EXCEPT ![c].s3 = Rejected(S3PutError)]
  /\ UNCHANGED <<config, ctor, s3Store, ipfsStore, now, blocks, ops, tampers>>

\* S3Store.store line 45: client.send(putCommand) settles
S3PutSettle(c, ok) ==
  /\ calls[c].op = "store" /\ calls[c].pc = "pending"
  /\ calls[c].s3.st = "pending"
  /\ LET put == calls[c].put
     IN  IF ok
         THEN /\ bucket' = [bucket EXCEPT ![put.Key] =
                   [present |-> TRUE, Body |-> put.Body,
                    Metadata |-> [hash |-> Some(put.Metadata.hash),
                                  size |-> Some(put.Metadata.size),
                                  timestamp |-> Some(put.Metadata.timestamp)]]]
              /\ calls' = [calls EXCEPT ![c].s3 = Fulfilled(S3StoreResult(put))]
         ELSE /\ bucket' = bucket
              /\ calls' = [calls EXCEPT ![c].s3 = Rejected(S3PutError)]
  /\ UNCHANGED <<config, ctor, s3Store, ipfsStore, now, blocks, ops, tampers>>

\* IPFSStore.store lines 21-24: client.add(buffer, {pin: true}) settles
IPFSAddSettle(c, ok) ==
  /\ calls[c].op = "store" /\ calls[c].pc = "pending"
  /\ calls[c].ipfs.st = "pending"
  /\ IF ok
     THEN /\ blocks' = blocks \cup {calls[c].data}
          /\ calls' = [calls EXCEPT ![c].ipfs =
                Fulfilled(IPFSStoreResult(calls[c].data, calls[c].ipfsT))]
     ELSE /\ blocks' = blocks
          /\ calls' = [calls EXCEPT ![c].ipfs = Rejected(IPFSAddError)]
  /\ UNCHANGED <<config, ctor, s3Store, ipfsStore, now, bucket, ops, tampers>>

\* variant: the settlements are kept in a field of the instance, where the
\* first call in flight has put its own
StoreResultsShared(call) ==
  LET shared == IF calls[1].op = "store" THEN calls[1] ELSE call
  IN  SelectSeq(<<shared.s3, shared.ipfs>>, LAMBDA p : p.st # "none")

\* store lines 27-30: [s3 promise, ipfs promise].filter(Boolean), settled
StoreResults(call) == SelectSeq(<<call.s3, call.ipfs>>, LAMBDA p : p.st # "none")

\* variant: the settlement's backend is taken from its position alone
StoreAssignByIndex(result, index, settlement) ==
  IF settlement.st = "fulfilled"
  THEN IF index = 0
       THEN [result EXCEPT !.s3Key = settlement.value.s3Key]
       ELSE [result EXCEPT !.ipfsHash = settlement.value.ipfsHash]
  ELSE result

\* store lines 39-46: one iteration of the aggregation loop (index is 0-based)
StoreAssign(result, index, settlement) ==
  IF settlement.st = "fulfilled"
  THEN IF index = 0 /\ s3Store
       THEN [result EXCEPT !.s3Key = settlement.value.s3Key]
       ELSE IF (index = 1 /\ s3Store) \/ (index = 0 /\ ~s3Store)
            THEN [result EXCEPT !.ipfsHash = settlement.value.ipfsHash]
            ELSE result
  ELSE result

RECURSIVE StoreLoop(_, _, _)
\* store lines 38-47: for (const [index, settlement] of results.entries())
StoreLoop(result, results, index) ==
  IF index >= Len(results) THEN result
  ELSE StoreLoop(StoreAssign(result, index, results[index + 1]), results, index + 1)

\* variant: one rejection is enough to fail the call
AnyFailed(results) ==
  LET failedStores == SelectSeq(results, LAMBDA r : r.st = "rejected")
  IN  Len(failedStores) > 0

\* store lines 49-52: every settlement was a rejection
AllFailed(results) ==
  LET failedStores == SelectSeq(results, LAMBDA r : r.st = "rejected")
  IN  Len(failedStores) = Len(results)

\* variant: the call is decided as soon as one write has settled
StoreFinishEarly(c) ==
  /\ calls[c].op = "store" /\ calls[c].pc = "pending"
  /\ Settled(calls[c].s3) \/ Settled(calls[c].ipfs)
  /\ LET call == calls[c]
         results == StoreResults(call)
         result == StoreLoop([hash |-> call.metadata.hash,
                              size |-> call.metadata.size,
                              timestamp |-> call.metadata.timestamp,
                              s3Key |-> Undefined,
                              ipfsHash |-> Undefined], results, 0)
     IN  calls' = [calls EXCEPT ![c] =
           IF AllFailed(results)
           THEN [call EXCEPT !.pc = "threw"] @@ [error |-> AllFailedError]
           ELSE [call EXCEPT !.pc = "returned"] @@ [result |-> result]]
  /\ UNCHANGED <<config, ctor, s3Store, ipfsStore, now, bucket, blocks, ops, tampers>>

\* store lines 27-54: Promise.allSettled resolved; aggregate and decide
StoreFinish(c) ==
  /\ calls[c].op = "store" /\ calls[c].pc = "pending"
  /\ calls[c].s3.st # "pending" /\ calls[c].ipfs.st # "pending"
  /\ LET call == calls[c]
         results == StoreResults(call)
         result == StoreLoop([hash |-> call.metadata.hash,
                              size |-> call.metadata.size,
                              timestamp |-> call.metadata.timestamp,
                              s3Key |-> Undefined,
                              ipfsHash |-> Undefined], results, 0)
     IN  calls' = [calls EXCEPT ![c] =
           IF AllFailed(results)
           THEN [call EXCEPT !.pc = "threw"] @@ [error |-> AllFailedError]
           ELSE [call EXCEPT !.pc = "returned"] @@ [result |-> result]]
  /\ UNCHANGED <<config, ctor, s3Store, ipfsStore, now, bucket, blocks, ops, tampers>>

\* the caller has consumed the outcome; the slot is free for the next call
Return(c) ==
  /\ calls[c].pc \in {"returned", "threw"}
  /\ calls' = [calls EXCEPT ![c] = IdleCall]
  /\ UNCHANGED <<config, ctor, s3Store, ipfsStore, now, bucket, blocks, ops, tampers>>

(* ----------------------- EvidenceStore.retrieve ------------------------ *)
S3GetError == Err("ServiceUnavailable", "S3 get failed")
NoSuchKeyError == Err("NoSuchKey", "The specified key does not exist.")
IPFSCatError == Err("TimeoutError", "IPFS cat failed")
ObjectNotFound(key) == Err("Error", "Object not found: " \o key)
\* variant: a mismatch is reported as a missing object
HashVerificationAsNotFound(key) == Err("Error", "Object not found: " \o key)
HashVerificationFailed(key) ==
  Err("Error", "Hash verification failed for object: " \o key)

Ok(v) == [ok |-> TRUE, value |-> v]
Throw(e) == [ok |-> FALSE, error |-> e]

\* a || b on optional strings
OrElse(o, s) == IF Truthy(o) THEN o.str ELSE s

\* the GetObject response for an object of the bucket
\* variant: the body stream is read as empty
GetResponseEmptyBody(obj) == [Body |-> Some(<<>>), Metadata |-> obj.Metadata]
GetResponse(obj) == [Body |-> Some(obj.Body), Metadata |-> obj.Metadata]
\* a response that carries no Body
EmptyResponse == [Body |-> Undefined,
                  Metadata |-> [hash |-> Undefined, size |-> Undefined,
                                timestamp |-> Undefined]]

\* variant: the stored hash is not checked against the bytes
S3RetrieveUnverified(response, key, t) ==
  IF ~response.Body.def
  THEN Throw([name |-> "Error", message |-> "Object not found: " \o key])
  ELSE LET data == response.Body.str
           storedHash == response.Metadata.hash
       IN  Ok([data |-> data,
               metadata |->
                 [hash |-> OrElse(storedHash, sha256(data)),
                  size |-> Len(data),
                  timestamp |-> OrElse(response.Metadata.timestamp,
                                       toISOString(t))]])

\* S3Store.retrieve lines 63-81, from the response on; t is the clock reading
S3Retrieve(response, key, t) ==
  IF ~response.Body.def
  THEN Throw(ObjectNotFound(key))
  ELSE LET data == response.Body.str
           storedHash == response.Metadata.hash
       IN  IF Truthy(storedHash) /\ ~verifyHash(data, storedHash.str)
           THEN Throw(HashVerificationFailed(key))
           ELSE Ok([data |-> data,
                    metadata |->
                      [hash |-> OrElse(storedHash,
                                       generateIntegrityMetadata(data, t).hash),
                       size |-> Len(data),
                       timestamp |-> OrElse(response.Metadata.timestamp,
                                            toISOString(t))]])

\* variant: the metadata is computed before the chunks are concatenated
IPFSRetrieveEarlyMetadata(data, t1, t2) ==
  LET metadata == generateIntegrityMetadata(<<>>, t1)
  IN  [data |-> data,
       metadata |-> [hash |-> metadata.hash,
                     size |-> metadata.size,
                     timestamp |-> toISOString(t2)]]

\* IPFSStore.retrieve lines 41-51: data is the concatenation of the chunks
IPFSRetrieve(data, t1, t2) ==
  LET metadata == generateIntegrityMetadata(data, t1)
  IN  [data |-> data,
       metadata |-> [hash |-> metadata.hash,
                     size |-> metadata.size,
                     timestamp |-> toISOString(t2)]]

\* variant: the identifiers are reported only for the data read
MetadataOfDataOnly(result, source) ==
  LET verified == verifyHash(result.data, result.metadata.hash)
  IN  [hash |-> result.metadata.hash,
       size |-> result.metadata.size,
       timestamp |-> result.metadata.timestamp,
       s3Key |-> Undefined,
       ipfsHash |-> source.ipfsHash,
       verified |-> verified]

\* getMetadata lines 79-88
MetadataOf(result, source) ==
  LET verified == verifyHash(result.data, result.metadata.hash)
  IN  [hash |-> result.metadata.hash,
       size |-> result.metadata.size,
       timestamp |-> result.metadata.timestamp,
       s3Key |-> source.s3Key,
       ipfsHash |-> source.ipfsHash,
       verified |-> verified]

\* retrieve returned r: retrieve hands it to the caller, getMetadata goes on
Returned(call, r) ==
  [call EXCEPT !.pc = "returned"] @@
  [result |-> IF call.op = "getMetadata" THEN MetadataOf(r, call.source) ELSE r]

\* variant: the rejection is never delivered to the caller
ThrewHanging(call, e) == call
\* retrieve rejected with e: the caller's await throws it
Threw(call, e) == [call EXCEPT !.pc = "threw"] @@ [error |-> e]

\* variant: the key alone decides, whether or not the backend is configured
S3PathByKey(source) == Truthy(source.s3Key)

\* retrieve line 58: the object-store path is taken
S3Path(source) == Truthy(source.s3Key) /\ s3Store
\* retrieve line 66: the IPFS path is taken
IPFSPath(source) == Truthy(source.ipfsHash) /\ ipfsStore

\* variant: no fallback read after the object-store attempt
AfterS3NoFallback(call) == Threw(call, NoSourceError)

\* retrieve lines 66-70: what follows the object-store attempt
AfterS3(call) ==
  IF IPFSPath(call.source)
  THEN [call EXCEPT !.ipfs = Pending]
  ELSE Threw(call, NoSourceError)

\* variant: the catch clause swallows every error
S3CatchAll(call, error) == AfterS3(call)

\* retrieve lines 61-63: the catch clause around the object-store read
S3Catch(call, error) ==
  IF ~Truthy(call.source.ipfsHash)
  THEN Threw(call, error)
  ELSE AfterS3(call)

\* variant: both reads are issued at once
RetrieveBeginBoth(c, op, source) ==
  /\ Idle(c) /\ NoneInFlight(c)
  /\ op \in {"retrieve", "getMetadata"}
  /\ LET call == [op |-> op, pc |-> "pending", source |-> source,
                  s3 |-> NoPromise, ipfs |-> NoPromise, response |-> NoValue]
     IN  calls' = [calls EXCEPT ![c] =
           IF S3Path(source)
           THEN [call EXCEPT !.s3 = Pending,
                             !.ipfs = IF IPFSPath(source) THEN Pending ELSE @]
           ELSE AfterS3(call)]
  /\ ops' = ops + 1
  /\ UNCHANGED <<config, ctor, s3Store, ipfsStore, now, bucket, blocks, tampers>>

\* retrieve lines 57-70 (also as the first line of getMetadata), up to the
\* first backend read
RetrieveBegin(c, op, source) ==
  /\ Idle(c) /\ NoneInFlight(c)
  /\ op \in {"retrieve", "getMetadata"}
  /\ LET call == [op |-> op, pc |-> "pending", source |-> source,
                  s3 |-> NoPromise, ipfs |-> NoPromise, response |-> NoValue]
     IN  calls' = [calls EXCEPT ![c] =
           IF S3Path(source)
           THEN [call EXCEPT !.s3 = Pending]
           ELSE AfterS3(call)]
  /\ ops' = ops + 1
  /\ UNCHANGED <<config, ctor, s3Store, ipfsStore, now, bucket, blocks, tampers>>

\* what the bucket may answer to a GetObject for key
GetOutcomes(key) ==
  {Throw(S3GetError), Ok(EmptyResponse)} \cup
  (IF bucket[key].present THEN {Ok(GetResponse(bucket[key]))}
   ELSE {Throw(NoSuchKeyError)})

\* retrieve lines 59-63: the object-store read settles (S3Store.retrieve runs
\* from its await to its end), then the catch clause
S3GetSettle(c, d) ==
  /\ calls[c].op \in {"retrieve", "getMetadata"} /\ calls[c].pc = "pending"
  /\ calls[c].s3.st = "pending"
  /\ now + d <= MaxClock
  /\ \E answer \in GetOutcomes(calls[c].source.s3Key.str) :
       LET call == [calls[c] EXCEPT !.response = answer]
           key == call.source.s3Key.str
           r == IF answer.ok THEN S3Retrieve(answer.value, key, now + d)
                ELSE answer
       IN  /\ d = 1 => answer.ok /\ answer.value.Body.def
                       /\ ~Truthy(answer.value.Metadata.timestamp)
           /\ calls' = [calls EXCEPT ![c] =
                IF r.ok
                THEN Returned([call EXCEPT !.s3 = Fulfilled(r.value)], r.value)
                ELSE S3Catch([call EXCEPT !.s3 = Rejected(r.error)], r.error)]
  /\ now' = now + d
  /\ UNCHANGED <<config, ctor, s3Store, ipfsStore, bucket, blocks, ops, tampers>>

\* retrieve line 67: client.cat settles (IPFSStore.retrieve runs to its end)
IPFSCatSettle(c, ok, d1, d2) ==
  /\ calls[c].op \in {"retrieve", "getMetadata"} /\ calls[c].pc = "pending"
  /\ calls[c].ipfs.st = "pending"
  /\ now + d1 + d2 <= MaxClock
  /\ LET call == calls[c]
         found == {b \in blocks : cidToString(b) = call.source.ipfsHash.str}
     IN  IF ok
         THEN \E data \in found :
                LET r == IPFSRetrieve(data, now + d1, now + d1 + d2)
                IN  calls' = [calls EXCEPT ![c] =
                       Returned([call EXCEPT !.ipfs = Fulfilled(r)], r)]
         ELSE /\ d1 = 0 /\ d2 = 0
              /\ calls' = [calls EXCEPT ![c] =
                   Threw([call EXCEPT !.ipfs = Rejected(IPFSCatError)],
                         IPFSCatError)]
  /\ now' = now + d1 + d2
  /\ UNCHANGED <<config, ctor, s3Store, ipfsStore, bucket, blocks, ops, tampers>>

(* ------------------------ EvidenceStore.exists ------------------------- *)
\* S3Store.exists lines 85-97: head is "ok" or the name of the error thrown
S3Exists(head) ==
  IF head = "ok" THEN Ok(TRUE)
  ELSE IF head = "NoSuchKey" \/ head = "NotFound" THEN Ok(FALSE)
  ELSE Throw(Err(head, "S3 head failed"))

\* IPFSStore.exists lines 63-70: ls is the sequence of cids that pin.ls
\* yields, or <<"error">> when it throws
IPFSExists(ls, ipfsHash) ==
  IF ls = <<"error">> THEN FALSE
  ELSE IF Len(ls) > 0 THEN ls[1] = ipfsHash
  ELSE FALSE

\* exists lines 92-95: both probes are issued, or replaced by a resolved false
ExistsBegin(c, source) ==
  /\ Idle(c) /\ Alone(c)
  /\ calls' = [calls EXCEPT ![c] =
       [op |-> "exists", pc |-> "pending", source |-> source,
        s3 |-> IF S3Path(source) THEN Pending ELSE Fulfilled(FALSE),
        ipfs |-> IF IPFSPath(source) THEN Pending ELSE Fulfilled(FALSE),
        head |-> "none", ls |-> <<"none">>]]
  /\ ops' = ops + 1
  /\ UNCHANGED <<config, ctor, s3Store, ipfsStore, now, bucket, blocks, tampers>>

\* what the bucket may answer to a HeadObject for key
HeadOutcomes(key) ==
  {"ServiceUnavailable"} \cup
  (IF bucket[key].present THEN {"ok"} ELSE {"NotFound", "NoSuchKey"})

\* exists line 93: the S3Store.exists probe settles
S3HeadSettle(c) ==
  /\ calls[c].op = "exists" /\ calls[c].pc = "pending"
  /\ calls[c].s3.st = "pending"
  /\ \E head \in HeadOutcomes(calls[c].source.s3Key.str) :
       LET r == S3Exists(head)
       IN  calls' = [calls EXCEPT ![c].s3 =
                       IF r.ok THEN Fulfilled(r.value) ELSE Rejected(r.error),
                     ![c].head = head]
  /\ UNCHANGED <<config, ctor, s3Store, ipfsStore, now, bucket, blocks, ops, tampers>>

\* what the node may answer to pin.ls for one path
PinLsOutcomes(ipfsHash) ==
  {<<"error">>, <<>>} \cup
  {<<cidToString(b)>> : b \in {x \in blocks : cidToString(x) = ipfsHash}}

\* exists line 94: the IPFSStore.exists probe settles
IPFSPinLsSettle(c) ==
  /\ calls[c].op = "exists" /\ calls[c].pc = "pending"
  /\ calls[c].ipfs.st = "pending"
  /\ \E ls \in PinLsOutcomes(calls[c].source.ipfsHash.str) :
       calls' = [calls EXCEPT ![c].ipfs =
                   Fulfilled(IPFSExists(ls, calls[c].source.ipfsHash.str)),
                 ![c].ls = ls]
  /\ UNCHANGED <<config, ctor, s3Store, ipfsStore, now, bucket, blocks, ops, tampers>>

\* variant: a rejected probe counts as present
ExistsFlagOptimistic(settlement) ==
  IF settlement.st = "fulfilled" THEN settlement.value ELSE TRUE

\* exists lines 97-100: one settlement of Promise.allSettled read back
ExistsFlag(settlement) ==
  IF settlement.st = "fulfilled" THEN settlement.value ELSE FALSE

\* variant: a backend whose probe was rejected is dropped from the instance
ExistsFinishDropping(c) ==
  /\ calls[c].op = "exists" /\ calls[c].pc = "pending"
  /\ Settled(calls[c].s3) /\ Settled(calls[c].ipfs)
  /\ calls' = [calls EXCEPT ![c] =
       [calls[c] EXCEPT !.pc = "returned"] @@
       [result |-> [s3 |-> ExistsFlag(calls[c].s3),
                    ipfs |-> ExistsFlag(calls[c].ipfs)]]]
  /\ s3Store' = (s3Store /\ calls[c].s3.st # "rejected")
  /\ UNCHANGED <<config, ctor, ipfsStore, now, bucket, blocks, ops, tampers>>

\* exists lines 92-100: Promise.allSettled resolved
ExistsFinish(c) ==
  /\ calls[c].op = "exists" /\ calls[c].pc = "pending"
  /\ Settled(calls[c].s3) /\ Settled(calls[c].ipfs)
  /\ calls' = [calls EXCEPT ![c] =
       [calls[c] EXCEPT !.pc = "returned"] @@
       [result |-> [s3 |-> ExistsFlag(calls[c].s3),
                    ipfs |-> ExistsFlag(calls[c].ipfs)]]]
  /\ UNCHANGED <<config, ctor, s3Store, ipfsStore, now, bucket, blocks, ops, tampers>>

(* ------------------------ EvidenceStore.verify ------------------------- *)
\* verify lines 73-75: no backend is involved, the call settles at once
Verify(c, data, expectedHash) ==
  /\ Idle(c) /\ Alone(c)
  /\ calls' = [calls EXCEPT ![c] =
       [op |-> "verify", pc |-> "returned", data |-> data,
        expectedHash |-> expectedHash,
        result |-> verifyHash(data, expectedHash)]]
  /\ ops' = ops + 1
  /\ UNCHANGED <<config, ctor, s3Store, ipfsStore, now, bucket, blocks, tampers>>

(* ------------- EvidenceStore.getSignedUrl / getIPFSGatewayUrl ----------- *)
DefaultExpiresIn == 3600
DefaultGateway == "https://ipfs.io"
S3NotConfigured == Err("Error", "S3 store not configured")
IPFSNotConfigured == Err("Error", "IPFS store not configured")

PresignError == Err("CredentialsProviderError", "presigning failed")

\* S3Store.getSignedUrl lines 100-107: the presigned GetObject URL, or the
\* presigner's error (signed = FALSE); expiresIn is an optional number, and an
\* absent one takes the default
S3SignedUrl(key, expiresIn, signed) ==
  LET ttl == IF expiresIn.def THEN expiresIn.num ELSE DefaultExpiresIn
  IN  IF signed
      THEN Ok("https://bucket/" \o key \o "?X-Amz-Expires=" \o ToString(ttl))
      ELSE Throw(PresignError)

\* IPFSStore.getGatewayUrl lines 73-75
IPFSGatewayUrl(ipfsHash, gateway) ==
  LET base == IF gateway.def THEN gateway.str ELSE DefaultGateway
  IN  base \o "/ipfs/" \o ipfsHash

\* variant: the guard looks at the other backend
SignedUrlOutcomeWrongGuard(s3Key, expiresIn, signed) ==
  IF ~ipfsStore THEN Throw(S3NotConfigured)
  ELSE S3SignedUrl(s3Key, expiresIn, signed)

\* getSignedUrl lines 104-107
SignedUrlOutcome(s3Key, expiresIn, signed) ==
  IF ~s3Store THEN Throw(S3NotConfigured)
  ELSE S3SignedUrl(s3Key, expiresIn, signed)

\* getIPFSGatewayUrl lines 111-114
GatewayUrlOutcome(ipfsHash, gateway) ==
  IF ~ipfsStore THEN Throw(IPFSNotConfigured)
  ELSE Ok(IPFSGatewayUrl(ipfsHash, gateway))

\* a call that settles in one step with outcome r
Settle(call, r) ==
  IF r.ok THEN [call EXCEPT !.pc = "returned"] @@ [result |-> r.value]
  ELSE [call EXCEPT !.pc = "threw"] @@ [error |-> r.error]

\* getSignedUrl lines 103-108
GetSignedUrl(c, s3Key, expiresIn, signed) ==
  /\ Idle(c) /\ Alone(c)
  /\ s3Store \/ signed
  /\ calls' = [calls EXCEPT ![c] =
       Settle([op |-> "getSignedUrl", pc |-> "pending", s3Key |-> s3Key,
               expiresIn |-> expiresIn, signed |-> signed],
              SignedUrlOutcome(s3Key, expiresIn, signed))]
  /\ ops' = ops + 1
  /\ UNCHANGED <<config, ctor, s3Store, ipfsStore, now, bucket, blocks, tampers>>

\* getIPFSGatewayUrl lines 110-115
GetIPFSGatewayUrl(c, ipfsHash, gateway) ==
  /\ Idle(c) /\ Alone(c)
  /\ calls' = [calls EXCEPT ![c] =
       Settle([op |-> "getIPFSGatewayUrl", pc |-> "pending",
               ipfsHash |-> ipfsHash, gateway |-> gateway],
              GatewayUrlOutcome(ipfsHash, gateway))]
  /\ ops' = ops + 1
  /\ UNCHANGED <<config, ctor, s3Store, ipfsStore, now, bucket, blocks, tampers>>

(* ----------------------------- environment ----------------------------- *)
\* a third party rewrites an object of the bucket: another body under the
\* same attributes ("body"), another content-hash attribute ("hash"), or no
\* attributes at all ("strip")
Tamper(k, kind, b) ==
  /\ tampers < MaxTampers
  /\ bucket[k].present
  /\ LET obj == bucket[k]
         new == CASE kind = "body" -> [obj EXCEPT !.Body = b]
                  [] kind = "hash" -> [obj EXCEPT !.Metadata.hash = Some(sha256(b))]
                  [] kind = "strip" ->
                       [obj EXCEPT !.Metadata = [hash |-> Undefined,
                                                 size |-> Undefined,
                                                 timestamp |-> Undefined]]
     IN  /\ new # obj
         /\ kind = "strip" => b = <<>>
         /\ bucket' = [bucket EXCEPT ![k] = new]
  /\ tampers' = tampers + 1
  /\ UNCHANGED <<config, ctor, s3Store, ipfsStore, now, blocks, calls, ops>>

OptKeys == {Undefined} \cup {Some(k) : k \in OverrideKeys}
\* the selector fields a caller may pass: absent, empty, or an identifier
OptS3Keys == {Undefined, Some("")} \cup {Some(k) : k \in Keys}
OptCids == {Undefined, Some("")} \cup {Some(h) : h \in Cids}
Sources == [s3Key : OptS3Keys, ipfsHash : OptCids]

\* the expected hashes a caller may pass to verify: a digest, or a digest
\* without its marker
ExpectedHashes ==
  {sha256(b) : b \in Payloads} \cup {HexDigest(b) : b \in Payloads}
OptExpiresIn == {[def |-> FALSE], [def |-> TRUE, num |-> 60]}
OptGateways == {Undefined, Some("https://dweb.link")}

Next ==
  \/ \E cfgS3, cfgIpfs \in BOOLEAN : Construct(cfgS3, cfgIpfs)
  \/ \E c \in Calls, data \in Payloads, key \in OptKeys, d0, d1, d2 \in {0, 1} :
       StoreBegin(c, data, key, d0, d1, d2)
  \/ \E c \in Calls, ok \in BOOLEAN : S3PutSettle(c, ok)
  \/ \E c \in Calls, ok \in BOOLEAN : IPFSAddSettle(c, ok)
  \/ \E c \in Calls : StoreFinish(c)
  \/ \E c \in Calls, op \in {"retrieve", "getMetadata"}, source \in Sources :
       RetrieveBegin(c, op, source)
  \/ \E c \in Calls, d \in {0, 1} : S3GetSettle(c, d)
  \/ \E c \in Calls, ok \in BOOLEAN, d1, d2 \in {0, 1} : IPFSCatSettle(c, ok, d1, d2)
  \/ \E c \in Calls, source \in Sources : ExistsBegin(c, source)
  \/ \E c \in Calls : S3HeadSettle(c)
  \/ \E c \in Calls : IPFSPinLsSettle(c)
  \/ \E c \in Calls : ExistsFinish(c)
  \/ \E c \in Calls, data \in Payloads, expectedHash \in ExpectedHashes :
       Verify(c, data, expectedHash)
  \/ \E c \in Calls, s3Key \in Keys, expiresIn \in OptExpiresIn, signed \in BOOLEAN :
       GetSignedUrl(c, s3Key, expiresIn, signed)
  \/ \E c \in Calls, ipfsHash \in Cids, gateway \in OptGateways :
       GetIPFSGatewayUrl(c, ipfsHash, gateway)
  \/ \E c \in Calls : Return(c)
  \/ \E k \in Keys, kind \in {"body", "hash", "strip"}, b \in Payloads :
       Tamper(k, kind, b)

Spec == Init /\ [][Next]_vars

\* every backend operation in flight eventually settles (with some outcome),
\* and the event loop resumes a call whose awaited promises have settled
Fairness ==
  \A c \in Calls :
    /\ WF_vars(\E ok \in BOOLEAN : S3PutSettle(c, ok))
    /\ WF_vars(\E ok \in BOOLEAN : IPFSAddSettle(c, ok))
    /\ WF_vars(StoreFinish(c))
    /\ WF_vars(\E d \in {0, 1} : S3GetSettle(c, d))
    /\ WF_vars(\E ok \in BOOLEAN, d1, d2 \in {0, 1} : IPFSCatSettle(c, ok, d1, d2))
    /\ WF_vars(S3HeadSettle(c))
    /\ WF_vars(IPFSPinLsSettle(c))
    /\ WF_vars(ExistsFinish(c))

FairSpec == Spec /\ Fairness

\* the object that a successful put leaves in the bucket
StoredObject(put) ==
  [present |-> TRUE, Body |-> put.Body,
   Metadata |-> [hash |-> Some(put.Metadata.hash),
                 size |-> Some(put.Metadata.size),
                 timestamp |-> Some(put.Metadata.timestamp)]]

\* the instance is created over backends that already hold one payload,
\* stored under its default key by an earlier instance of this program
InitAfterEarlierStore ==
  /\ config = [s3 |-> FALSE, ipfs |-> FALSE]
  /\ ctor = "new"
  /\ s3Store = FALSE
  /\ ipfsStore = FALSE
  /\ now = 0
  /\ \E b \in Payloads :
       LET put == PutObjectCommand(b, Undefined, 0)
       IN  /\ bucket = [k \in Keys |->
                  IF k = put.Key THEN StoredObject(put) ELSE NoObject]
           /\ blocks = {b}
  /\ calls = [c \in Calls |-> IdleCall]
  /\ ops = 0
  /\ tampers = 0

SpecAfterEarlierStore == InitAfterEarlierStore /\ [][Next]_vars

(* ------------------------------- claims -------------------------------- *)
Done(c, op) == calls[c].op = op /\ calls[c].pc \in {"returned", "threw"}

\* C1: a finished store() returned a StoreResult iff at least one of the
\* writes it issued succeeded, and threw the all-backends-failed error iff
\* every write it issued failed; it issued at least one write.
C1_StoreSucceedsIffOneWrite ==
  \A c \in Calls : Done(c, "store") =>
    LET call == calls[c]
        oneOk == call.s3.st = "fulfilled" \/ call.ipfs.st = "fulfilled"
    IN  /\ call.s3.st # "none" \/ call.ipfs.st # "none"
        /\ call.pc = "returned" <=> oneOk
        /\ call.pc = "threw" <=> ~oneOk
        /\ call.pc = "threw" => call.error = AllFailedError

\* a store() over both backends returned although the object-store write failed
C1_Witness ==
  \E c \in Calls :
    /\ Done(c, "store") /\ calls[c].pc = "returned"
    /\ calls[c].s3.st = "rejected" /\ calls[c].ipfs.st = "fulfilled"

\* C2: in a returned StoreResult the s3Key is the key of the put when the
\* object-store write succeeded and absent otherwise, and the ipfsHash is the
\* address of the added bytes when the IPFS write succeeded and absent
\* otherwise, in every configuration; the two writes settle in either order.
C2_IdentifiersByBackend ==
  \A c \in Calls : Done(c, "store") /\ calls[c].pc = "returned" =>
    LET call == calls[c]
    IN  /\ call.result.s3Key =
             IF call.s3.st = "fulfilled" THEN Some(call.put.Key) ELSE Undefined
        /\ call.result.ipfsHash =
             IF call.ipfs.st = "fulfilled" THEN Some(cidToString(call.data))
             ELSE Undefined

\* both writes succeeded and each identifier is in its own field
C2_Witness ==
  \E c \in Calls :
    /\ Done(c, "store") /\ calls[c].pc = "returned"
    /\ calls[c].s3.st = "fulfilled" /\ calls[c].ipfs.st = "fulfilled"
    /\ calls[c].result.s3Key = Some(calls[c].put.Key)
    /\ calls[c].result.ipfsHash = Some(cidToString(calls[c].data))

\* the two writes of one store() settle in either order: the IPFS write has
\* settled while the object-store write is pending, and the other way round
C2_WitnessIpfsFirst ==
  \E c \in Calls :
    /\ calls[c].op = "store"
    /\ calls[c].s3.st = "pending" /\ calls[c].ipfs.st = "fulfilled"

C2_WitnessS3First ==
  \E c \in Calls :
    /\ calls[c].op = "store"
    /\ calls[c].s3.st = "fulfilled" /\ calls[c].ipfs.st = "pending"

\* the IPFS-only configuration: the single settlement is the IPFS one
C2_WitnessIpfsOnly ==
  \E c \in Calls :
    /\ Done(c, "store") /\ calls[c].pc = "returned"
    /\ ~s3Store /\ calls[c].result.ipfsHash.def

\* C3: a finished retrieve() given a key and a content address, both backends
\* configured, whose object-store read failed, went on to the IPFS read; when
\* that read succeeded the call returned its result and raised nothing.
C3_FallbackToIpfs ==
  \A c \in Calls :
    LET call == calls[c]
    IN  /\ Done(c, "retrieve")
        /\ Truthy(call.source.s3Key) /\ Truthy(call.source.ipfsHash)
        /\ s3Store /\ ipfsStore
        /\ call.s3.st = "rejected"
        => /\ call.ipfs.st \in {"fulfilled", "rejected"}
           /\ call.ipfs.st = "fulfilled" =>
                call.pc = "returned" /\ call.result = call.ipfs.value

C3_Witness ==
  \E c \in Calls :
    /\ Done(c, "retrieve") /\ calls[c].pc = "returned"
    /\ calls[c].s3.st = "rejected" /\ calls[c].ipfs.st = "fulfilled"
    /\ calls[c].result = calls[c].ipfs.value

\* C4: once the object-store read of a retrieve() has succeeded the call has
\* returned that read's result, and from the issue of the object-store read
\* on no IPFS read is issued, with or without a content address.
C4_NoIpfsReadAfterS3Success ==
  \A c \in Calls :
    LET call == calls[c]
    IN  call.op = "retrieve" =>
          /\ call.s3.st = "pending" => call.ipfs.st = "none"
          /\ call.s3.st = "fulfilled" =>
               /\ call.pc = "returned"
               /\ call.result = call.s3.value
               /\ call.ipfs.st = "none"

\* the object-store read succeeded although a content address was given too
C4_Witness ==
  \E c \in Calls :
    /\ Done(c, "retrieve") /\ calls[c].s3.st = "fulfilled"
    /\ Truthy(calls[c].source.ipfsHash) /\ ipfsStore
    /\ calls[c].ipfs.st = "none"

\* C5: a finished retrieve() given a key and no content address, whose
\* object-store read failed, threw exactly the error of that read.
C5_S3ErrorPropagates ==
  \A c \in Calls :
    LET call == calls[c]
    IN  /\ Done(c, "retrieve")
        /\ ~call.source.ipfsHash.def
        /\ call.s3.st = "rejected"
        => /\ call.pc = "threw"
           /\ call.error = call.s3.reason
           /\ call.error # NoSourceError

C5_Witness ==
  \E c \in Calls :
    /\ Done(c, "retrieve") /\ calls[c].pc = "threw"
    /\ ~calls[c].source.ipfsHash.def
    /\ calls[c].s3.st = "rejected"
    /\ calls[c].error = calls[c].s3.reason

\* neither path of retrieve applies: each identifier is absent (or empty) or
\* names a backend that is not configured
NoPath(source) ==
  /\ ~Truthy(source.s3Key) \/ ~config.s3
  /\ ~Truthy(source.ipfsHash) \/ ~config.ipfs

\* C6: a retrieve() for which neither path applies has thrown the
\* no-source error and has issued no backend read.
C6_NoSourceError ==
  \A c \in Calls :
    LET call == calls[c]
    IN  call.op = "retrieve" /\ NoPath(call.source) =>
          /\ call.pc = "threw"
          /\ call.error = NoSourceError
          /\ call.s3.st = "none" /\ call.ipfs.st = "none"

\* the selector names a key, but only IPFS is configured
C6_Witness ==
  \E c \in Calls :
    /\ Done(c, "retrieve") /\ calls[c].error = NoSourceError
    /\ Truthy(calls[c].source.s3Key) /\ ~s3Store
    /\ ~calls[c].source.ipfsHash.def

\* the object-store read of call c received bytes that do not hash to the
\* content-hash attribute stored with the object
TamperedRead(c) ==
  LET answer == calls[c].response
  IN  /\ answer # NoValue /\ answer.ok /\ answer.value.Body.def
      /\ Truthy(answer.value.Metadata.hash)
      /\ sha256(answer.value.Body.str) # answer.value.Metadata.hash.str

\* C7 as stated: getMetadata() on evidence whose stored hash does not match
\* the retrieved bytes returns verified = false and does not raise.
C7_TamperedReturnsUnverified ==
  \A c \in Calls : Done(c, "getMetadata") /\ TamperedRead(c) =>
    calls[c].pc = "returned" /\ calls[c].result.verified = FALSE

\* C7 amended: on such evidence the object-store read raises the
\* hash-verification error; getMetadata() throws it when no content address
\* is given, and every EvidenceMetadata it does return has verified = true.
C7_TamperedRaises ==
  \A c \in Calls : Done(c, "getMetadata") =>
    LET call == calls[c]
    IN  /\ TamperedRead(c) =>
             /\ call.s3 = Rejected(HashVerificationFailed(call.source.s3Key.str))
             /\ ~Truthy(call.source.ipfsHash) =>
                  call.pc = "threw" /\ call.error = call.s3.reason
        /\ call.pc = "returned" => call.result.verified = TRUE

C7_Witness ==
  \E c \in Calls :
    /\ Done(c, "getMetadata") /\ TamperedRead(c)
    /\ calls[c].pc = "threw"
    /\ calls[c].error = HashVerificationFailed(calls[c].source.s3Key.str)

\* C8 as stated: the hash, size and timestamp embedded with the object that
\* a store() wrote to the object store are those of the StoreResult returned.
C8_EmbeddedEqualsResult ==
  \A c \in Calls :
    Done(c, "store") /\ calls[c].pc = "returned" /\ calls[c].s3.st = "fulfilled" =>
      LET call == calls[c]
      IN  /\ call.put.Metadata.hash = call.result.hash
          /\ call.put.Metadata.size = ToString(call.result.size)
          /\ call.put.Metadata.timestamp = call.result.timestamp

\* C9: construction throws iff the configuration names neither backend;
\* otherwise exactly the configured backends are set, and a later store()
\* writes to exactly those.
C9_ConstructionIffBackend ==
  /\ ctor # "new" =>
       /\ ctor = "threw" <=> (~config.s3 /\ ~config.ipfs)
       /\ ctor = "ok" => s3Store = config.s3 /\ ipfsStore = config.ipfs
  /\ ctor # "ok" => \A c \in Calls : calls[c].pc = "idle"
  /\ \A c \in Calls : calls[c].op = "store" =>
       /\ calls[c].s3.st # "none" <=> config.s3
       /\ calls[c].ipfs.st # "none" <=> config.ipfs

\* constructed with IPFS alone, and a store() has written to it
C9_Witness ==
  /\ ctor = "ok" /\ ~config.s3 /\ config.ipfs
  /\ \E c \in Calls : Done(c, "store") /\ calls[c].ipfs.st = "fulfilled"

C9_WitnessThrew == ctor = "threw" /\ ~config.s3 /\ ~config.ipfs

\* C10: a finished exists() has returned (never thrown) a pair of booleans;
\* a flag is true only if its backend is configured, the selector names an
\* identifier for it and the probe reported presence.
C10_ExistsNeverRaises ==
  \A c \in Calls : Done(c, "exists") =>
    LET call == calls[c]
    IN  /\ call.pc = "returned"
        /\ call.result.s3 \in BOOLEAN /\ call.result.ipfs \in BOOLEAN
        /\ call.result.s3 =>
             config.s3 /\ Truthy(call.source.s3Key) /\ call.head = "ok"
        /\ call.result.ipfs =>
             /\ config.ipfs /\ Truthy(call.source.ipfsHash)
             /\ call.ls = <<call.source.ipfsHash.str>>

\* the object-store probe threw an error other than not-found
C10_Witness ==
  \E c \in Calls :
    /\ Done(c, "exists") /\ calls[c].pc = "returned"
    /\ calls[c].s3.st = "rejected" /\ calls[c].head = "ServiceUnavailable"
    /\ calls[c].result.s3 = FALSE

\* C11: verify(b, h) always returns, and returns true iff h is exactly the
\* digest of b (marker included); a malformed h gives false.
C11_VerifyIffDigest ==
  \A c \in Calls : calls[c].op = "verify" =>
    LET call == calls[c]
    IN  /\ call.pc = "returned"
        /\ call.result \in BOOLEAN
        /\ call.result <=> call.expectedHash = sha256(call.data)

\* verify returned false for the digest of the payload without its marker
C11_Witness ==
  \E c \in Calls :
    /\ Done(c, "verify")
    /\ calls[c].expectedHash = HexDigest(calls[c].data)
    /\ calls[c].result = FALSE

C11_WitnessTrue ==
  \E c \in Calls :
    /\ Done(c, "verify")
    /\ calls[c].expectedHash = sha256(calls[c].data)
    /\ calls[c].result = TRUE

\* C12: the hash and size of a StoreResult are the digest and the length of
\* the payload; two returned store() calls with the same bytes carry the
\* same hash and size, whichever writes succeeded and whatever the clock read.
C12_HashAndSizeFromBytes ==
  \A c, d \in Calls :
    /\ Done(c, "store") /\ calls[c].pc = "returned"
    /\ Done(d, "store") /\ calls[d].pc = "returned"
    => /\ calls[c].result.hash = sha256(calls[c].data)
       /\ calls[c].result.size = Len(calls[c].data)
       /\ calls[c].data = calls[d].data =>
            /\ calls[c].result.hash = calls[d].result.hash
            /\ calls[c].result.size = calls[d].result.size

\* two returned store() calls of the same bytes, made at different clock
\* readings, one saved by the object store alone and one by IPFS alone
C12_Witness ==
  \E c, d \in Calls :
    /\ c # d
    /\ Done(c, "store") /\ calls[c].pc = "returned"
    /\ Done(d, "store") /\ calls[d].pc = "returned"
    /\ calls[c].data = calls[d].data
    /\ calls[c].result.timestamp # calls[d].result.timestamp
    /\ calls[c].s3.st = "fulfilled" /\ calls[c].ipfs.st = "rejected"
    /\ calls[d].s3.st = "rejected" /\ calls[d].ipfs.st = "fulfilled"
    /\ calls[c].result.hash = calls[d].result.hash

\* the object-store write of call c succeeds in this step
S3Written(c) ==
  /\ calls[c].op = "store" /\ calls[c].s3.st = "pending"
  /\ calls'[c].s3.st = "fulfilled"

\* the key choice in the store() calls of a state
KeyChoice(cs) ==
  \A c \in Calls : cs[c].op = "store" /\ cs[c].s3.st # "none" =>
    /\ cs[c].key.def => cs[c].put.Key = cs[c].key.str
    /\ \A d \in Calls :
         /\ cs[d].op = "store" /\ cs[d].s3.st # "none"
         /\ ~cs[c].key.def /\ ~cs[d].key.def
         => /\ cs[c].data = cs[d].data => cs[c].put.Key = cs[d].put.Key
            /\ sha256(cs[c].data) # sha256(cs[d].data) =>
                 cs[c].put.Key # cs[d].put.Key
    /\ cs[c].pc = "returned" /\ cs[c].s3.st = "fulfilled" =>
         cs[c].result.s3Key = Some(cs[c].put.Key)

\* C13: with an override key the object is written under exactly that key,
\* and that key is returned; without one the key depends on the content hash
\* alone: the same bytes give the same key, different hashes different keys.
C13_KeyChoice ==
  [][/\ KeyChoice(calls')
     /\ \A c \in Calls : S3Written(c) =>
          /\ bucket'[calls[c].put.Key].present
          /\ bucket'[calls[c].put.Key].Body = calls[c].data
          /\ \A k \in Keys : k # calls[c].put.Key => bucket'[k] = bucket[k]
          /\ calls[c].key.def => calls[c].put.Key = calls[c].key.str]_vars

\* the same bytes stored twice without an override, at different clock
\* readings, came back under one key
C13_Witness ==
  \E c, d \in Calls :
    /\ c # d
    /\ Done(c, "store") /\ calls[c].pc = "returned"
    /\ Done(d, "store") /\ calls[d].pc = "returned"
    /\ ~calls[c].key.def /\ ~calls[d].key.def
    /\ calls[c].data = calls[d].data
    /\ calls[c].result.timestamp # calls[d].result.timestamp
    /\ calls[c].result.s3Key.def
    /\ calls[c].result.s3Key = calls[d].result.s3Key

C13_WitnessOverride ==
  \E c \in Calls :
    /\ Done(c, "store") /\ calls[c].pc = "returned"
    /\ calls[c].key.def /\ calls[c].result.s3Key = calls[c].key
    /\ bucket[calls[c].key.str].present

\* C14: getSignedUrl throws the not-configured error iff the object store was
\* not configured, getIPFSGatewayUrl iff IPFS was not; otherwise each ends
\* as its backend's method does (the presigner's URL or the presigner's error).
C14_NotConfiguredIffAbsent ==
  \A c \in Calls :
    LET call == calls[c]
    IN  /\ call.op = "getSignedUrl" =>
             /\ call.pc \in {"returned", "threw"}
             /\ (call.pc = "threw" /\ call.error = S3NotConfigured) <=> ~config.s3
             /\ config.s3 =>
                  LET r == S3SignedUrl(call.s3Key, call.expiresIn, call.signed)
                  IN  IF r.ok THEN call.pc = "returned" /\ call.result = r.value
                      ELSE call.pc = "threw" /\ call.error = r.error
        /\ call.op = "getIPFSGatewayUrl" =>
             /\ call.pc \in {"returned", "threw"}
             /\ call.pc = "threw" <=> ~config.ipfs
             /\ call.pc = "threw" => call.error = IPFSNotConfigured
             /\ call.pc = "returned" =>
                  call.result = IPFSGatewayUrl(call.ipfsHash, call.gateway)

\* getSignedUrl threw on an orchestrator configured with IPFS alone
C14_Witness ==
  \E c \in Calls :
    /\ Done(c, "getSignedUrl") /\ calls[c].pc = "threw"
    /\ calls[c].error = S3NotConfigured
    /\ ~config.s3 /\ config.ipfs

C14_WitnessGateway ==
  \E c \in Calls :
    /\ Done(c, "getIPFSGatewayUrl") /\ calls[c].pc = "returned"
    /\ config.s3 /\ config.ipfs

(* C15: the orchestrator is stateless across calls: once constructed, no
   operation changes which backends are configured, and no step of retrieve,
   verify, getMetadata, exists, getSignedUrl or getIPFSGatewayUrl writes to a
   backend: the bucket and the IPFS node are as they were before the step. *)
ReadOps ==
  {"retrieve", "getMetadata", "exists", "verify", "getSignedUrl",
   "getIPFSGatewayUrl"}

\* a step of call c that belongs to one of the operations that only read
ReadStep(c) ==
  /\ calls'[c] # calls[c]
  /\ calls[c].op \in ReadOps \/ calls'[c].op \in ReadOps

C15_Stateless ==
  [][/\ ctor # "new" =>
          /\ s3Store' = s3Store /\ ipfsStore' = ipfsStore
          /\ s3Store' = config.s3 /\ ipfsStore' = config.ipfs
     /\ (\E c \in Calls : ReadStep(c)) => bucket' = bucket /\ blocks' = blocks
    ]_vars

\* exists has returned after a rejected object-store probe, over a bucket
\* and a node that hold an object, and both backends are still configured
C15_Witness ==
  \E c \in Calls :
    /\ Done(c, "exists")
    /\ calls[c].s3.st = "rejected"
    /\ s3Store /\ ipfsStore
    /\ \E k \in Keys : bucket[k].present
    /\ blocks # {}

(* C16: store() never returns or throws while a write it issued is pending:
   the step that decides the call is taken with every issued write settled,
   and a decided call has no pending write, whichever write settled first
   and however it settled. *)
C16_DecidedAfterAllSettled ==
  [][\A c \in Calls :
       /\ calls[c].op = "store" /\ calls[c].pc = "pending"
          /\ calls'[c].pc \in {"returned", "threw"}
          => /\ calls[c].s3.st # "pending" /\ calls[c].ipfs.st # "pending"
             /\ calls'[c].s3 = calls[c].s3 /\ calls'[c].ipfs = calls[c].ipfs
       /\ calls'[c].op = "store" /\ calls'[c].pc \in {"returned", "threw"}
          => calls'[c].s3.st # "pending" /\ calls'[c].ipfs.st # "pending"
    ]_vars

\* the object-store write has already failed, the IPFS write is pending, and
\* the call is still undecided
C16_Witness ==
  \E c \in Calls :
    /\ calls[c].op = "store" /\ calls[c].pc = "pending"
    /\ calls[c].s3.st = "rejected" /\ calls[c].ipfs.st = "pending"

\* the object-store write has already succeeded and the call is undecided
C16_WitnessSucceeded ==
  \E c \in Calls :
    /\ calls[c].op = "store" /\ calls[c].pc = "pending"
    /\ calls[c].s3.st = "fulfilled" /\ calls[c].ipfs.st = "pending"

(* C17: a store() call has one write per configured backend and none for an
   unconfigured one, from its first step on (so both are issued before either
   has settled); a write that has settled is not issued again; and while one
   write has failed and the other is pending, the other can still complete. *)
C17_IndependentWrites ==
  \A c \in Calls :
    LET call == calls[c]
    IN  call.op = "store" =>
          /\ call.s3.st = "none" <=> ~config.s3
          /\ call.ipfs.st = "none" <=> ~config.ipfs
          /\ call.s3.st = "rejected" /\ call.ipfs.st = "pending" =>
               ENABLED IPFSAddSettle(c, TRUE)
          /\ call.ipfs.st = "rejected" /\ call.s3.st = "pending" =>
               ENABLED S3PutSettle(c, TRUE)

\* the IPFS write failed and the object-store write completed all the same:
\* the object is in the bucket
C17_Witness ==
  \E c \in Calls :
    /\ calls[c].op = "store"
    /\ calls[c].ipfs.st = "rejected" /\ calls[c].s3.st = "fulfilled"
    /\ bucket[calls[c].put.Key].present
    /\ bucket[calls[c].put.Key].Body = calls[c].data

\* the IPFS write has failed while the object-store write is still pending
C17_WitnessPending ==
  \E c \in Calls :
    /\ calls[c].op = "store" /\ calls[c].pc = "pending"
    /\ calls[c].ipfs.st = "rejected" /\ calls[c].s3.st = "pending"

(* C18 as stated: a retrieve() that fails after attempting at least one
   backend read throws the error of the last read it attempted. *)
LastReadError(call) ==
  IF call.ipfs.st = "rejected" THEN call.ipfs.reason ELSE call.s3.reason

C18_LastReadErrorPropagates ==
  \A c \in Calls :
    LET call == calls[c]
    IN  /\ Done(c, "retrieve") /\ call.pc = "threw"
        /\ call.s3.st = "rejected" \/ call.ipfs.st = "rejected"
        => call.error = LastReadError(call)

\* the state that refutes it: the object-store read failed, a content address
\* was given but IPFS is not configured, and the caller gets the no-source
\* error in place of the object-store error
C18_Masked ==
  \E c \in Calls :
    /\ Done(c, "retrieve") /\ calls[c].pc = "threw"
    /\ calls[c].s3.st = "rejected" /\ calls[c].ipfs.st = "none"
    /\ Truthy(calls[c].source.ipfsHash) /\ ~ipfsStore
    /\ calls[c].error = NoSourceError
    /\ calls[c].error # calls[c].s3.reason

(* C19: the object-store read never returns corrupted data: when the object
   read carries a content-hash attribute that its bytes do not hash to, the
   read fails with the hash-verification error, which is not the not-found
   error, and its bytes are not the call's result; retrieve then treats it
   as a failed read: the IPFS read is issued when a content address was
   given and IPFS is configured, and the error is thrown unchanged when no
   content address was given. *)
C19_CorruptedNeverReturned ==
  \A c \in Calls :
    LET call == calls[c]
    IN  call.op \in {"retrieve", "getMetadata"} /\ TamperedRead(c) =>
          LET key == call.source.s3Key.str
          IN  /\ call.s3.st = "rejected"
              /\ call.s3.reason = HashVerificationFailed(key)
              /\ call.s3.reason # ObjectNotFound(key)
              /\ call.pc = "returned" /\ call.op = "retrieve" =>
                   /\ call.ipfs.st = "fulfilled"
                   /\ call.result = call.ipfs.value
                   /\ verifyHash(call.result.data, call.result.metadata.hash)
              /\ IPFSPath(call.source) => call.ipfs.st # "none"
              /\ ~Truthy(call.source.ipfsHash) =>
                   call.pc = "threw" /\ call.error = call.s3.reason

\* a retrieve whose object-store read met a corrupted object and which
\* returned the bytes of the IPFS read instead
C19_Witness ==
  \E c \in Calls :
    /\ Done(c, "retrieve") /\ TamperedRead(c)
    /\ calls[c].s3.reason = HashVerificationFailed(calls[c].source.s3Key.str)
    /\ calls[c].pc = "returned"
    /\ calls[c].result = calls[c].ipfs.value

\* a retrieve given only the key of a corrupted object threw the integrity error
C19_WitnessThrew ==
  \E c \in Calls :
    /\ Done(c, "retrieve") /\ TamperedRead(c)
    /\ ~Truthy(calls[c].source.ipfsHash)
    /\ calls[c].pc = "threw"
    /\ calls[c].error = HashVerificationFailed(calls[c].source.s3Key.str)

(* C20: store() calls in flight at once do not interfere: every StoreResult
   carries the hash and the size of the payload of its own call, the key of
   its own put when its own object-store write succeeded and the address of
   its own payload when its own IPFS write succeeded. *)
C20_OwnValues ==
  \A c \in Calls : Done(c, "store") /\ calls[c].pc = "returned" =>
    LET call == calls[c]
        result == call.result
    IN  /\ result.hash = sha256(call.data)
        /\ result.size = Len(call.data)
        /\ result.s3Key.def <=> call.s3.st = "fulfilled"
        /\ result.s3Key.def => result.s3Key.str = call.put.Key
        /\ result.ipfsHash.def <=> call.ipfs.st = "fulfilled"
        /\ result.ipfsHash.def => result.ipfsHash.str = cidToString(call.data)

\* two store() calls with different payloads overlap: the first has one write
\* settled and the other pending, the second, begun meanwhile, has returned
\* with the hash and the identifiers of its own payload
C20_Witness ==
  /\ calls[1].op = "store" /\ calls[1].pc = "pending"
  /\ calls[1].s3.st = "fulfilled" /\ calls[1].ipfs.st = "pending"
  /\ Done(2, "store") /\ calls[2].pc = "returned"
  /\ calls[2].data # calls[1].data
  /\ calls[2].result.hash = sha256(calls[2].data)
  /\ calls[2].result.hash # calls[1].metadata.hash
  /\ calls[2].result.s3Key = Some(calls[2].put.Key)
  /\ calls[2].put.Key # calls[1].put.Key
  /\ calls[2].result.ipfsHash = Some(cidToString(calls[2].data))

(* C21: provided every backend operation eventually settles, every store(),
   retrieve(), getMetadata() and exists() call in flight eventually returns
   or throws; and a timeout of one backend is a failure like any other: a
   store() whose IPFS write timed out and whose object-store write succeeded
   returns. *)
InFlight(c) == calls[c].pc = "pending"
Completed(c) == calls[c].pc \in {"returned", "threw"}

TimeoutTolerated ==
  \A c \in Calls :
    /\ Done(c, "store")
    /\ calls[c].ipfs.st = "rejected" /\ calls[c].ipfs.reason.name = "TimeoutError"
    /\ calls[c].s3.st = "fulfilled"
    => calls[c].pc = "returned" /\ calls[c].result.s3Key.def

C21_EventuallyCompletes ==
  /\ \A c \in Calls : InFlight(c) ~> Completed(c)
  /\ []TimeoutTolerated

\* a store() returned although its IPFS write timed out
C21_Witness ==
  \E c \in Calls :
    /\ Done(c, "store") /\ calls[c].pc = "returned"
    /\ calls[c].ipfs.st = "rejected" /\ calls[c].ipfs.reason = IPFSAddError
    /\ IPFSAddError.name = "TimeoutError"
    /\ calls[c].s3.st = "fulfilled"
    /\ calls[c].result.ipfsHash = Undefined

(* C22: every RetrieveResult that retrieve() returns, from either backend,
   has metadata.hash equal to the digest of its data and metadata.size equal
   to the length of its data; every EvidenceMetadata that getMetadata()
   returns has verified = true and the hash and size of the data served; a
   mismatch between the bytes read and the stored hash is a rejected read. *)
Served(call) ==
  IF call.s3.st = "fulfilled" THEN call.s3.value ELSE call.ipfs.value

C22_ReturnedMetadataMatches ==
  \A c \in Calls :
    LET call == calls[c]
    IN  /\ Done(c, "retrieve") /\ call.pc = "returned" =>
             /\ call.result = Served(call)
             /\ call.result.metadata.hash = sha256(call.result.data)
             /\ call.result.metadata.size = Len(call.result.data)
        /\ Done(c, "getMetadata") /\ call.pc = "returned" =>
             /\ call.result.verified = TRUE
             /\ call.result.hash = sha256(Served(call).data)
             /\ call.result.size = Len(Served(call).data)
        /\ call.op \in {"retrieve", "getMetadata"} /\ TamperedRead(c) =>
             call.s3.st = "rejected"

\* getMetadata() served by the IPFS read of a non-empty payload
C22_Witness ==
  \E c \in Calls :
    /\ Done(c, "getMetadata") /\ calls[c].pc = "returned"
    /\ calls[c].ipfs.st = "fulfilled"
    /\ calls[c].ipfs.value.data # <<>>
    /\ calls[c].result.verified = TRUE

\* retrieve() served by the object store from an object without attributes:
\* the hash is computed from the bytes read
C22_WitnessComputed ==
  \E c \in Calls :
    /\ Done(c, "retrieve") /\ calls[c].pc = "returned"
    /\ calls[c].s3.st = "fulfilled"
    /\ ~Truthy(calls[c].response.value.Metadata.hash)
    /\ calls[c].result.metadata.hash = sha256(calls[c].result.data)

(* C23: as long as only this program has written to the bucket, every object
   present has a content-hash attribute equal to the digest of its body and
   a content-size attribute equal to the length of its body, whatever the
   store() calls were and however they interleaved, several of them on the
   same key included; and no read of such an object fails the hash
   verification. *)
ObjectConsistent(obj) ==
  /\ obj.Metadata.hash = Some(sha256(obj.Body))
  /\ obj.Metadata.size = Some(ToString(Len(obj.Body)))

C23_StoredObjectsConsistent ==
  tampers = 0 =>
    /\ \A k \in Keys : bucket[k].present => ObjectConsistent(bucket[k])
    /\ \A c \in Calls :
         calls[c].op \in {"retrieve", "getMetadata"} =>
           /\ ~TamperedRead(c)
           /\ calls[c].s3.st = "rejected" =>
                calls[c].s3.reason #
                  HashVerificationFailed(calls[c].source.s3Key.str)

\* two store() calls in flight at once have written different payloads
\* under the same key, and the object there is one of the two, whole
C23_Witness ==
  /\ tampers = 0
  /\ calls[1].op = "store" /\ calls[2].op = "store"
  /\ calls[1].s3.st = "fulfilled" /\ calls[2].s3.st = "fulfilled"
  /\ calls[1].put.Key = calls[2].put.Key
  /\ calls[1].data # calls[2].data
  /\ bucket[calls[1].put.Key].present
  /\ bucket[calls[1].put.Key].Body \in {calls[1].data, calls[2].data}
  /\ ObjectConsistent(bucket[calls[1].put.Key])

\* an object that only this program wrote was read back and verified
C23_WitnessRead ==
  \E c \in Calls :
    /\ tampers = 0
    /\ Done(c, "retrieve") /\ calls[c].pc = "returned"
    /\ calls[c].s3.st = "fulfilled"
    /\ Truthy(calls[c].response.value.Metadata.hash)

(* C24: round trip with default keys. While no object was written under an
   override key and no third party has touched the bucket, a retrieve()
   called with the identifiers of a StoreResult that a store() without
   override key returned, returns the bytes of that store()'s payload with
   metadata.hash equal to the StoreResult's hash; and it does return
   whenever the bucket answers with the object. *)
IdentifiersOf(result) == [s3Key |-> result.s3Key, ipfsHash |-> result.ipfsHash]

\* call r is a retrieve() of what the store() call c returned
RetrievesResultOf(r, c) ==
  /\ Done(c, "store") /\ calls[c].pc = "returned"
  /\ ~calls[c].key.def
  /\ calls[r].op = "retrieve"
  /\ calls[r].source = IdentifiersOf(calls[c].result)

AnsweredWithObject(call) ==
  /\ call.response # NoValue
  /\ call.response.ok
  /\ call.response.value.Body.def

C24_RoundTrip ==
  \A c, r \in Calls :
    /\ RetrievesResultOf(r, c)
    /\ tampers = 0
    /\ \A k \in OverrideKeys : ~bucket[k].present
    => LET call == calls[r]
       IN  /\ call.pc = "returned" =>
                /\ call.result.data = calls[c].data
                /\ call.result.metadata.hash = calls[c].result.hash
           /\ AnsweredWithObject(call) =>
                call.pc = "returned" /\ call.s3.st = "fulfilled"
           /\ call.ipfs.st = "fulfilled" => call.pc = "returned"

\* a non-empty payload stored in both backends came back from the bucket
C24_Witness ==
  \E c, r \in Calls :
    /\ RetrievesResultOf(r, c)
    /\ tampers = 0
    /\ calls[c].result.s3Key.def /\ calls[c].result.ipfsHash.def
    /\ calls[c].data # <<>>
    /\ calls[r].pc = "returned" /\ calls[r].s3.st = "fulfilled"
    /\ calls[r].result.data = calls[c].data

\* the same through the IPFS read, the object-store read having failed
C24_WitnessIpfs ==
  \E c, r \in Calls :
    /\ RetrievesResultOf(r, c)
    /\ tampers = 0
    /\ calls[r].pc = "returned"
    /\ calls[r].s3.st = "rejected" /\ calls[r].ipfs.st = "fulfilled"
    /\ calls[r].result.data = calls[c].data

\* the payload of another store() lies in both backends as well
C24_WitnessAmongOthers ==
  \E c, r \in Calls :
    /\ RetrievesResultOf(r, c)
    /\ tampers = 0
    /\ calls[r].pc = "returned"
    /\ calls[r].result.data = calls[c].data
    /\ \E k \in DerivedKeys :
         bucket[k].present /\ bucket[k].Body # calls[c].data
    /\ \E b \in blocks : b # calls[c].data

(* C25: the s3Key and the ipfsHash of every EvidenceMetadata that
   getMetadata() returns are the selector's own fields, whichever backend
   served the data: served by the IPFS fallback after a failed object-store
   read, the result still carries the selector's s3Key. *)
C25_SelectorCopiedThrough ==
  \A c \in Calls :
    Done(c, "getMetadata") /\ calls[c].pc = "returned" =>
      /\ calls[c].result.s3Key = calls[c].source.s3Key
      /\ calls[c].result.ipfsHash = calls[c].source.ipfsHash

\* the object-store read failed, the IPFS read served the data, and the
\* result names the key that could not be read
C25_Witness ==
  \E c \in Calls :
    /\ Done(c, "getMetadata") /\ calls[c].pc = "returned"
    /\ calls[c].s3.st = "rejected" /\ calls[c].ipfs.st = "fulfilled"
    /\ Truthy(calls[c].source.s3Key)
    /\ calls[c].result.s3Key = calls[c].source.s3Key

\* served by the object store, the result names a content address that was
\* never read
C25_WitnessS3 ==
  \E c \in Calls :
    /\ Done(c, "getMetadata") /\ calls[c].pc = "returned"
    /\ calls[c].s3.st = "fulfilled" /\ calls[c].ipfs.st = "none"
    /\ Truthy(calls[c].source.ipfsHash)
    /\ calls[c].result.ipfsHash = calls[c].source.ipfsHash

====
